---- MODULE Spec2Model ----
(***************************************************************************)
(* A model of rust-dense-bitset: DenseBitSet (one u64 word) and            *)
(* DenseBitSetExtended (a Vec<u64> plus a logical size).                   *)
(*                                                                         *)
(* A u64 is modelled as the set of its set bit positions, a subset of      *)
(* 0..63: bit i of the integer is set iff i is in the set.  Shifts drop    *)
(* the bits that leave the 64-bit word, as the machine does.               *)
(*                                                                         *)
(* A Rust panic (index out of bounds, failed assert!, remainder by zero)   *)
(* is modelled as a result [ok |-> FALSE, val |-> ...]; for an operation   *)
(* on &mut self, val is the receiver as the panic left it.                 *)
(***************************************************************************)
EXTENDS Integers, Sequences, FiniteSets, TLC

\* Width of one storage word (u64).
WordBits == 64

\* set_bit's ceiling on the word index (assert!(idx < 1000)).
MaxWords == 1000

\* Number of operations applied in one run of the model.
MaxOps == 2

---------------------------------------------------------------------------
(* u64 arithmetic on bit sets *)

BitIdx == 0..(WordBits - 1)

\* u64::max_value()
max_value == BitIdx

\* x << k on u64, for 0 <= k < 64
shl64(x, k) == {i + k : i \in {j \in x : j + k < WordBits}}

\* x >> k on u64, for 0 <= k < 64
shr64(x, k) == {i - k : i \in {j \in x : j >= k}}

\* (1 << n) - 1 on u64, for 0 <= n < 64
low_mask(n) == 0..(n - 1)

and64(x, y) == x \cap y

or64(x, y) == x \cup y

xor64(x, y) == (x \ y) \cup (y \ x)

not64(x) == BitIdx \ x

\* u64::count_ones
count_ones(x) == Cardinality(x)

---------------------------------------------------------------------------
(* Results of operations that may panic *)

Ok(x) == [ok |-> TRUE, val |-> x]

Fail(x) == [ok |-> FALSE, val |-> x]

---------------------------------------------------------------------------
(* DenseBitSet (u64impl.rs) *)

dbs_from_integer(i) == i

dbs_to_integer(s) == s

\* usize: a value at or above 2^63 is written as the negative integer with the
\* same two's complement bits, so usize::MAX is -1 and wrapping addition is +
usize_max == -1

\* x < y on usize
ult(x, y) == IF (x < 0) = (y < 0) THEN x < y ELSE y < 0

\* x + y overflows usize
usize_add_overflows(x, y) ==
    \/ x < 0 /\ y < 0
    \/ x < 0 /\ y >= 0 /\ x + y >= 0
    \/ x >= 0 /\ y < 0 /\ x + y >= 0

\* DenseBitSet::extract.  overflow_checks tells the build: with overflow checks
\* position + length panics when it overflows, without them it wraps and a
\* shift amount is taken modulo 64
dbs_extract(s, position, length, overflow_checks) ==
    IF usize_add_overflows(position, length) /\ overflow_checks THEN Fail({})
    ELSE IF ult(64, position + length) THEN Fail({})
    ELSE IF length = 0 THEN Fail({})
    ELSE IF ult(length, 64)
         THEN Ok(and64(shr64(s, position % 64), low_mask(length)))
         ELSE Ok(shr64(s, position % 64))

\* DenseBitSet::insert; a panic leaves the word as it was
dbs_insert(s, position, length, value, overflow_checks) ==
    IF usize_add_overflows(position, length) /\ overflow_checks THEN Fail(s)
    ELSE IF ult(64, position + length) THEN Fail(s)
    ELSE IF length = 0 THEN Fail(s)
    ELSE IF ult(length, 64)
         THEN LET u == xor64(max_value, shl64(low_mask(length), position % 64))
              IN  Ok(or64(and64(s, u), shl64(value, position % 64)))
         ELSE Ok(value)

\* DenseBitSet::set_bit
dbs_set_bit(s, position, value) ==
    IF ~ult(position, 64) THEN Fail(s)
    ELSE IF value THEN Ok(or64(s, shl64({0}, position)))
         ELSE Ok(and64(s, not64(shl64({0}, position))))

\* DenseBitSet::get_bit
dbs_get_bit(s, position) ==
    IF ~ult(position, 64) THEN Fail(FALSE)
    ELSE Ok(and64(shr64(s, position), {0}) = {0})

\* u64::swap_bytes
swap_bytes(x) == {(7 - (i \div 8)) * 8 + (i % 8) : i \in x}

\* DenseBitSet::reverse: swap 1-bit, 2-bit, 4-bit groups, then the bytes
dbs_reverse(s) ==
    LET m1 == {i \in BitIdx : i % 2 = 0}
        m2 == {i \in BitIdx : i % 4 < 2}
        m4 == {i \in BitIdx : i % 8 < 4}
        v1 == or64(and64(shr64(s, 1), m1), shl64(and64(s, m1), 1))
        v2 == or64(and64(shr64(v1, 2), m2), shl64(and64(v1, m2), 2))
        v3 == or64(and64(shr64(v2, 4), m4), shl64(and64(v2, m4), 4))
    IN  swap_bytes(v3)

\* format!("{:064b}", x): 64 characters, bit 63 first
format_064b(x) == [c \in 1..WordBits |-> IF (WordBits - c) \in x THEN "1" ELSE "0"]

---------------------------------------------------------------------------
(* DenseBitSetExtended (vec64impl.rs) *)

\* struct DenseBitSetExtended { state: Vec<u64>, size: usize }
Vec(state, size) == [state |-> state, size |-> size]

\* DenseBitSetExtended::new
new == Vec(<<>>, 0)

\* DenseBitSetExtended::from_dense_bitset
from_dense_bitset(dbs) == Vec(<<dbs_to_integer(dbs)>>, 64)

\* n zero words pushed on a Vec
zeros(n) == [i \in 1..n |-> {}]

\* DenseBitSetExtended::get: an absent word reads as zero
get(self, index) ==
    IF index < Len(self.state) THEN self.state[index + 1] ELSE {}

\* extract_u64 with the straddling read taking the whole next word: the mask
\* (1 << remainder) - 1 on self.state[idx + 1] is left out
extract_u64_unmasked_msb(self, position, length) ==
    IF length > 64 THEN Fail({})
    ELSE IF length <= 0 THEN Fail({})
    ELSE IF position >= self.size THEN Ok({})
    ELSE
      LET idx == position \div 64
          offset == position % 64
          actual_length == IF position + length > self.size
                           THEN self.size - position
                           ELSE length
      IN  IF actual_length + offset < 64
          THEN Ok(and64(shr64(get(self, idx), offset), low_mask(actual_length)))
          ELSE IF actual_length + offset = 64
          THEN Ok(shr64(get(self, idx), offset))
          ELSE IF idx >= Len(self.state)
          THEN Fail({})
          ELSE
            LET lsb == shr64(self.state[idx + 1], offset)
            IN  IF Len(self.state) = idx + 1
                THEN Ok(lsb)
                ELSE Ok(or64(shl64(self.state[idx + 2], 64 - offset), lsb))

\* DenseBitSetExtended::extract_u64
extract_u64(self, position, length) ==
    IF length > 64 THEN Fail({})
    ELSE IF length <= 0 THEN Fail({})
    ELSE IF position >= self.size THEN Ok({})
    ELSE
      LET idx == position \div 64
          offset == position % 64
          actual_length == IF position + length > self.size
                           THEN self.size - position
                           ELSE length
      IN  IF actual_length + offset < 64
          THEN Ok(and64(shr64(get(self, idx), offset), low_mask(actual_length)))
          ELSE IF actual_length + offset = 64
          THEN Ok(shr64(get(self, idx), offset))
          ELSE IF idx >= Len(self.state)
          THEN Fail({})                      \* self.state[idx] out of bounds
          ELSE
            LET remainder == actual_length + offset - 64
                lsb == shr64(self.state[idx + 1], offset)
            IN  IF Len(self.state) = idx + 1
                THEN Ok(lsb)
                ELSE Ok(or64(shl64(and64(self.state[idx + 2], low_mask(remainder)),
                                   64 - offset),
                             lsb))

\* the for loop of subset: push extract_u64(l * 64 + position, 64) for l in l..segments-1
RECURSIVE subset_loop(_, _, _, _, _)
subset_loop(self, position, l, segments, state) ==
    IF l >= segments THEN Ok(state)
    ELSE LET e == extract_u64(self, l * 64 + position, 64)
         IN  IF ~e.ok THEN Fail(state)
             ELSE subset_loop(self, position, l + 1, segments, Append(state, e.val))

\* DenseBitSetExtended::subset
subset(self, position, length) ==
    IF length = 0 THEN Ok(Vec(<<>>, 0))
    ELSE LET segments == 1 + ((length - 1) \div 64)
             r == subset_loop(self, position, 0, segments, <<>>)
         IN  IF r.ok THEN Ok(Vec(r.val, length)) ELSE Fail(new)

\* DenseBitSetExtended::insert_u64, for 1 <= length <= 64
insert_u64(self, value, position, length) ==
    LET idx == position \div 64
        offset == position % 64
        need == 1 + ((position + length - 1) \div 64)
        grown == IF need > Len(self.state)
                 THEN self.state \o zeros(need - Len(self.state))
                 ELSE self.state
        size == IF self.size >= position + length THEN self.size ELSE position + length
    IN  IF offset = 0 /\ length = 64
        THEN Vec([grown EXCEPT ![idx + 1] = value], size)
        ELSE IF offset + length - 1 < 64
        THEN LET u == xor64(max_value, shl64(low_mask(length), offset))
             IN  Vec([grown EXCEPT ![idx + 1] =
                        or64(and64(grown[idx + 1], u), shl64(value, offset))], size)
        ELSE LET lsb == shl64(and64(value, low_mask(64 - offset)), offset)
                 mask_lsb == shr64(max_value, 64 - offset)
                 msb == shr64(value, 64 - offset)
                 mask_msb == shl64(max_value, (position + length) % 64)
             IN  Vec([grown EXCEPT
                        ![idx + 1] = or64(and64(grown[idx + 1], mask_lsb), lsb),
                        ![idx + 2] = or64(and64(grown[idx + 2], mask_msb), msb)], size)

\* the for loops of insert: insert_u64(other.state[i], position + i * 64, 64) for i in i..n-1
RECURSIVE insert_loop(_, _, _, _, _)
insert_loop(self, other, position, i, n) ==
    IF i >= n THEN Ok(self)
    ELSE IF i >= Len(other.state) THEN Fail(self)    \* other.state[i] out of bounds
    ELSE insert_loop(insert_u64(self, other.state[i + 1], position + i * 64, 64),
                     other, position, i + 1, n)

\* DenseBitSetExtended::insert
insert(self, other, position, length) ==
    LET l == (length \div 64) + 1
        size_before_insertion == self.size
        size == IF size_before_insertion >= position + length
                THEN size_before_insertion ELSE position + length
    IN  IF length % 64 = 0
        THEN LET r == insert_loop(self, other, position, 0, l)
             IN  IF r.ok THEN Ok(Vec(r.val.state, size)) ELSE r
        ELSE LET r == insert_loop(self, other, position, 0, l - 1)
             IN  IF ~r.ok THEN r
                 ELSE IF l - 1 >= Len(other.state) THEN Fail(r.val)
                 ELSE Ok(Vec(insert_u64(r.val, other.state[l], position + (l - 1) * 64,
                                        length % 64).state, size))

\* BitSet::set_bit for DenseBitSetExtended
set_bit(self, position, value) ==
    LET idx == position \div 64
        offset == position % 64
        len == Len(self.state)
        state == IF idx >= len
                 THEN IF value
                      THEN LET g == self.state \o zeros(idx - len + 1)
                           IN  [g EXCEPT ![idx + 1] = or64(g[idx + 1], shl64({0}, offset))]
                      ELSE self.state
                 ELSE IF value
                 THEN [self.state EXCEPT ![idx + 1] = or64(@, shl64({0}, offset))]
                 ELSE [self.state EXCEPT ![idx + 1] = and64(@, not64(shl64({0}, offset)))]
    IN  IF idx >= MaxWords THEN Fail(self)
        ELSE Ok(Vec(state, IF position >= self.size THEN position + 1 ELSE self.size))

\* BitSet::get_bit for DenseBitSetExtended
get_bit(self, position) ==
    IF position > self.size THEN Ok(FALSE)
    ELSE LET idx == position \div 64
             offset == position % 64
         IN  IF idx >= Len(self.state) THEN Fail(FALSE)   \* self.state[idx] out of bounds
             ELSE Ok(and64(shr64(self.state[idx + 1], offset), {0}) = {0})

\* BitSet::get_weight for DenseBitSetExtended: hw += s.count_ones() over the words from i on
RECURSIVE weight_loop(_, _)
weight_loop(state, i) ==
    IF i > Len(state) THEN 0 ELSE count_ones(state[i]) + weight_loop(state, i + 1)

get_weight(self) == weight_loop(self.state, 1)

\* BitSet::reset for DenseBitSetExtended
reset(self) == Vec(<<>>, 0)

\* Vec::reverse / slice order reversal
reverse_seq(s) == [i \in 1..Len(s) |-> s[Len(s) + 1 - i]]

\* [String]::join(""), every piece 64 characters long
join(bss) ==
    [c \in 1..(WordBits * Len(bss)) |-> bss[((c - 1) \div WordBits) + 1][((c - 1) % WordBits) + 1]]

\* BitSet::to_string for DenseBitSetExtended
to_string(self) ==
    IF Len(self.state) = 0 THEN format_064b({})
    ELSE LET n == Len(self.state)
             bss == IF self.size % 64 = 0
                    THEN [i \in 1..n |-> format_064b(self.state[i])]
                    ELSE [i \in 1..n |->
                            IF i < n THEN format_064b(self.state[i])
                            ELSE format_064b(and64(self.state[n],
                                                   low_mask(self.size % 64)))]
         IN  join(reverse_seq(bss))

\* DenseBitSetExtended::reverse
reverse(self) ==
    Vec(reverse_seq([i \in 1..Len(self.state) |->
                       dbs_to_integer(dbs_reverse(dbs_from_integer(self.state[i])))]),
        self.size)

\* the loop of PartialEq::eq: compare self.state[i] with other.state[i] from i on
RECURSIVE eq_loop(_, _, _)
eq_loop(self, other, i) ==
    IF i >= Len(self.state) THEN Ok(TRUE)
    ELSE IF i >= Len(other.state) THEN Fail(FALSE)    \* other.state[i] out of bounds
    ELSE IF self.state[i + 1] # other.state[i + 1] THEN Ok(FALSE)
    ELSE eq_loop(self, other, i + 1)

\* impl PartialEq for DenseBitSetExtended
eq(self, other) ==
    IF self.size # other.size THEN Ok(FALSE) ELSE eq_loop(self, other, 0)

\* one pass of the loop of Shl::shl: v.set_bit(i + rhs, self.get_bit(i));
\* r is the vector v built so far, or the panic that ended the loop
shl_step(self, rhs, i, r) ==
    IF ~r.ok THEN r
    ELSE LET g == get_bit(self, i)
         IN  IF ~g.ok THEN Fail(new)
             ELSE LET s == set_bit(r.val, i + rhs, g.val)
                  IN  IF ~s.ok THEN Fail(new) ELSE s

\* the loop of Shl::shl for i in lo..hi-1, in order (the range is halved to
\* keep the evaluation shallow)
RECURSIVE shl_loop(_, _, _, _, _)
shl_loop(self, rhs, lo, hi, r) ==
    IF lo >= hi THEN r
    ELSE IF hi = lo + 1 THEN shl_step(self, rhs, lo, r)
    ELSE LET mid == (lo + hi) \div 2
             first == shl_loop(self, rhs, lo, mid, r)
         IN  IF ~first.ok THEN first ELSE shl_loop(self, rhs, mid, hi, first)

\* impl Shl<usize> for DenseBitSetExtended (with_capacity gives an empty vector)
shl(self, rhs) == shl_loop(self, rhs, 0, self.size, Ok(new))

\* one pass of the loop of Shr::shr: v.set_bit(i, self.get_bit(i + rhs))
shr_step(self, rhs, i, r) ==
    IF ~r.ok THEN r
    ELSE LET g == get_bit(self, i + rhs)
         IN  IF ~g.ok THEN Fail(new)
             ELSE LET s == set_bit(r.val, i, g.val)
                  IN  IF ~s.ok THEN Fail(new) ELSE s

\* the loop of Shr::shr for i in lo..hi-1, in order
RECURSIVE shr_loop(_, _, _, _, _)
shr_loop(self, rhs, lo, hi, r) ==
    IF lo >= hi THEN r
    ELSE IF hi = lo + 1 THEN shr_step(self, rhs, lo, r)
    ELSE LET mid == (lo + hi) \div 2
             first == shr_loop(self, rhs, lo, mid, r)
         IN  IF ~first.ok THEN first ELSE shr_loop(self, rhs, mid, hi, first)

\* impl Shr<usize> for DenseBitSetExtended
shr(self, rhs) ==
    IF rhs >= self.size THEN Ok(Vec(<<>>, 0))
    ELSE shr_loop(self, rhs, 0, self.size - rhs, Ok(new))

\* DenseBitSetExtended::rotl
rotl(self, shift) ==
    IF self.size = 0 THEN Fail(new)                   \* shift % 0
    ELSE
      LET shift_amount == shift % self.size
          size_before_shift == self.size
          sh == shl(self, shift)
          shifted == subset(sh.val, 0, size_before_shift)
          extra == subset(self, size_before_shift - shift_amount, shift_amount)
          ins == insert(shifted.val, extra.val, 0, shift_amount)
      IN  IF shift_amount = 0 THEN Ok(self)
          ELSE IF ~sh.ok THEN Fail(new)
          ELSE IF ~shifted.ok THEN Fail(new)
          ELSE IF ~extra.ok THEN Fail(new)
          ELSE IF ~ins.ok THEN Fail(new)
          ELSE ins

\* DenseBitSetExtended::rotr
rotr(self, shift) ==
    IF self.size = 0 THEN Fail(new)                   \* shift % 0
    ELSE
      LET shift_amount == shift % self.size
          size_before_shift == self.size
          extra == subset(self, 0, shift_amount)
          shifted == shr(self, shift_amount)
          ins == insert(shifted.val, extra.val, size_before_shift - shift_amount,
                        shift_amount)
      IN  IF shift_amount = 0 THEN Ok(self)
          ELSE IF ~extra.ok THEN Fail(new)
          ELSE IF ~shifted.ok THEN Fail(new)
          ELSE IF ~ins.ok THEN Fail(new)
          ELSE ins

\* usize::min / usize::max
min(x, y) == IF x < y THEN x ELSE y

max(x, y) == IF x > y THEN x ELSE y

\* impl Not for DenseBitSetExtended; with no stored word, l - 1 underflows
\* (a panic with overflow checks, and without them the loop reads
\* self.state[0] of an empty Vec, a panic as well)
not(self) ==
    LET l == Len(self.state)
    IN  IF l = 0 THEN Fail(new)
        ELSE Ok(Vec([i \in 1..l |->
                       IF i < l \/ self.size % 64 = 0
                       THEN not64(self.state[i])
                       ELSE and64(not64(self.state[l]), low_mask(self.size % 64))],
                    self.size))

\* impl BitAnd for DenseBitSetExtended
bitand(self, rhs) ==
    LET l == min(Len(self.state), Len(rhs.state))
    IN  Vec([i \in 1..l |-> and64(self.state[i], rhs.state[i])],
            min(self.size, rhs.size))

\* impl BitAndAssign for DenseBitSetExtended: the words of self from l on stay
bitand_assign(self, rhs) ==
    LET l == min(Len(self.state), Len(rhs.state))
    IN  Vec([i \in 1..Len(self.state) |->
               IF i <= l THEN and64(self.state[i], rhs.state[i]) ELSE self.state[i]],
            min(self.size, rhs.size))

\* bitor over the words both operands store only: the words that one operand
\* alone stores are left out
bitor_min_words(self, rhs) ==
    LET l == min(Len(self.state), Len(rhs.state))
    IN  Vec([i \in 1..l |-> or64(self.state[i], rhs.state[i])],
            max(self.size, rhs.size))

\* impl BitOr for DenseBitSetExtended
bitor(self, rhs) ==
    LET l == max(Len(self.state), Len(rhs.state))
    IN  Vec([i \in 1..l |->
               IF i <= Len(self.state) /\ i <= Len(rhs.state)
               THEN or64(self.state[i], rhs.state[i])
               ELSE IF i > Len(self.state) THEN rhs.state[i]
               ELSE self.state[i]],
            max(self.size, rhs.size))

\* impl BitOrAssign for DenseBitSetExtended: self.state[i] = rhs.state[i] with
\* i >= self.state.len() is an index out of bounds; size is not assigned
bitor_assign(self, rhs) ==
    LET n == Len(self.state)
        m == Len(rhs.state)
        state == [i \in 1..n |->
                    IF i <= m THEN or64(self.state[i], rhs.state[i]) ELSE self.state[i]]
    IN  IF m > n THEN Fail(Vec(state, self.size)) ELSE Ok(Vec(state, self.size))

\* impl BitXor for DenseBitSetExtended
bitxor(self, rhs) ==
    LET l == max(Len(self.state), Len(rhs.state))
    IN  Vec([i \in 1..l |->
               IF i <= Len(self.state) /\ i <= Len(rhs.state)
               THEN xor64(self.state[i], rhs.state[i])
               ELSE IF i > Len(self.state) THEN rhs.state[i]
               ELSE self.state[i]],
            max(self.size, rhs.size))

\* impl BitXorAssign for DenseBitSetExtended
bitxor_assign(self, rhs) ==
    LET n == Len(self.state)
        m == Len(rhs.state)
        state == [i \in 1..n |->
                    IF i <= m THEN xor64(self.state[i], rhs.state[i]) ELSE self.state[i]]
    IN  IF m > n THEN Fail(Vec(state, self.size)) ELSE Ok(Vec(state, self.size))

\* impl ShlAssign<usize> for DenseBitSetExtended.  overflow_checks tells the
\* build: with overflow checks (debug) an arithmetic overflow panics, without
\* them (release) a subtraction wraps and a shift amount is taken modulo 64.
shl_assign(self, rhs, overflow_checks) ==
    LET trailing_zeros == rhs \div 64
        actual_shift == rhs % 64
        len == Len(self.state)
        underflow == len * 64 < self.size          \* len * 64 - size wraps
        pushed == IF ~underflow /\ rhs > len * 64 - self.size
                  THEN Append(self.state, {})
                  ELSE self.state
        l == Len(pushed)
        carry(x) == IF actual_shift = 0
                    THEN x                           \* x >> (64 & 63)
                    ELSE shr64(x, 64 - actual_shift)
        shifted == [j \in 1..l |->
                      IF j = 1 THEN shl64(pushed[1], actual_shift)
                      ELSE or64(shl64(pushed[j], actual_shift), carry(pushed[j - 1]))]
    IN  IF underflow /\ overflow_checks THEN Fail(self)
        ELSE IF l = 0 THEN Fail(self)               \* 0..(l - 1), then self.state[l - 1]
        ELSE IF l >= 2 /\ actual_shift = 0 /\ overflow_checks
        THEN Fail(Vec(pushed, self.size))          \* >> 64
        ELSE Ok(Vec(zeros(trailing_zeros) \o shifted, self.size + rhs))

\* impl ShrAssign<usize> for DenseBitSetExtended.  After reset() the function
\* goes on; Vec::remove(0) on an empty Vec panics; with no word left, l - 1
\* underflows (a panic with overflow checks, and without them the loop reads
\* self.state[0] of an empty Vec, a panic as well); << (64 - actual_shift)
\* with actual_shift = 0 panics with overflow checks and shifts by 0 without
shr_assign(self, rhs, overflow_checks) ==
    LET after_reset == IF rhs >= self.size THEN reset(self) ELSE self
        to_drop == rhs \div 64
        actual_shift == rhs % 64
        len == Len(after_reset.state)
        dropped == SubSeq(after_reset.state, to_drop + 1, len)
        l == Len(dropped)
        carry(x) == IF actual_shift = 0
                    THEN x                           \* x << (64 & 63)
                    ELSE shl64(x, 64 - actual_shift)
        shifted == [i \in 1..l |->
                      IF i = l THEN shr64(dropped[l], actual_shift)
                      ELSE or64(shr64(dropped[i], actual_shift), carry(dropped[i + 1]))]
    IN  IF to_drop > len THEN Fail(Vec(<<>>, after_reset.size))
        ELSE IF l = 0 THEN Fail(Vec(<<>>, after_reset.size))
        ELSE IF l >= 2 /\ actual_shift = 0 /\ overflow_checks
        THEN Fail(Vec(dropped, after_reset.size))
        ELSE Ok(Vec(shifted, after_reset.size - rhs))

\* u64::trailing_zeros of a nonzero word
word_trailing_zeros(x) == CHOOSE i \in x : \A j \in x : i <= j

\* DenseBitSetExtended::first_set: the first stored word that is not zero
\* decides, and size is returned when there is none
first_set(self) ==
    LET nonzero == {i \in 0..(Len(self.state) - 1) : self.state[i + 1] # {}}
    IN  IF nonzero = {} THEN self.size
        ELSE LET i == CHOOSE k \in nonzero : \A j \in nonzero : k <= j
             IN  i * 64 + word_trailing_zeros(self.state[i + 1])

\* DenseBitSetExtended::all; with no stored word, l - 1 underflows (a panic
\* with overflow checks, and without them the loop reads self.state[0] of an
\* empty Vec, a panic as well)
all(self) ==
    LET l == Len(self.state)
    IN  IF l = 0 THEN Fail(FALSE)
        ELSE IF \E i \in 1..(l - 1) : self.state[i] # max_value THEN Ok(FALSE)
        ELSE IF self.size % 64 = 0
        THEN Ok(self.state[l] = max_value)
        ELSE Ok(self.state[l] = low_mask(self.size % 64))

\* DenseBitSetExtended::any
any(self) == \E i \in 1..Len(self.state) : self.state[i] # {}

\* DenseBitSetExtended::none
none(self) == ~any(self)

\* impl Hash for DenseBitSetExtended: the sequence of words fed to the Hasher
hash(self) == self.state

---------------------------------------------------------------------------
(* Strings: a String is a sequence of one-character strings *)

\* the characters char::to_digit accepts up to radix 32, in digit order
DigitChars ==
    << "0", "1", "2", "3", "4", "5", "6", "7", "8", "9", "a", "b", "c", "d", "e", "f",
       "g", "h", "i", "j", "k", "l", "m", "n", "o", "p", "q", "r", "s", "t", "u", "v" >>

\* the same digits as to_digit reads them in upper case
UpperDigitChars ==
    << "0", "1", "2", "3", "4", "5", "6", "7", "8", "9", "A", "B", "C", "D", "E", "F",
       "G", "H", "I", "J", "K", "L", "M", "N", "O", "P", "Q", "R", "S", "T", "U", "V" >>

\* char::to_digit(radix): the digit value, or -1 for None
to_digit(c, radix) ==
    LET hits == {d \in 0..(radix - 1) : DigitChars[d + 1] = c \/ UpperDigitChars[d + 1] = c}
    IN  IF hits = {} THEN -1 ELSE CHOOSE d \in hits : TRUE

\* u32::is_power_of_two
is_power_of_two(radix) == radix \in {2 ^ k : k \in 0..30}

\* u64::trailing_zeros of a power of two
trailing_zeros(radix) == CHOOSE k \in 0..30 : 2 ^ k = radix

\* the bits of a digit below 32
digit_bits(d) == {k \in 0..4 : (d \div (2 ^ k)) % 2 = 1}

\* u64::from_str_radix(src, radix) for a power-of-two radix: the digit at
\* distance p from the right end lands at bits p * log_radix and up; an empty
\* string, a character that is no digit, or a value of 2^64 or more is an Err
from_str_radix(src, radix) ==
    LET n == Len(src)
        log_radix == trailing_zeros(radix)
        bits == UNION { {(n - c) * log_radix + k : k \in digit_bits(to_digit(src[c], radix))}
                        : c \in 1..n }
    IN  IF n = 0 THEN Fail({})
        ELSE IF \E c \in 1..n : to_digit(src[c], radix) < 0 THEN Fail({})
        ELSE IF \E i \in bits : i >= WordBits THEN Fail({})
        ELSE Ok(bits)

\* the while loop of from_string: cur is the part of the string not parsed yet
RECURSIVE from_string_loop(_, _, _, _)
from_string_loop(cur, radix, state, size) ==
    LET log_radix == trailing_zeros(radix)
        chunk_size == 64 \div log_radix
    IN  IF Len(cur) = 0 THEN Ok(Vec(state, size))
        ELSE IF Len(cur) > chunk_size
        THEN LET ms == SubSeq(cur, 1, Len(cur) - chunk_size)
                 ls == SubSeq(cur, Len(cur) - chunk_size + 1, Len(cur))
                 val == from_str_radix(ls, radix)
             IN  IF ~val.ok THEN Fail(new)           \* expect()
                 ELSE from_string_loop(ms, radix, Append(state, val.val), size + 64)
        ELSE LET val == from_str_radix(cur, radix)
             IN  IF ~val.ok THEN Fail(new)
                 ELSE Ok(Vec(Append(state, val.val), size + Len(cur) * log_radix))

\* DenseBitSetExtended::from_string
from_string(s, radix) ==
    IF ~is_power_of_two(radix) THEN Fail(new)
    ELSE IF ~(radix > 1) THEN Fail(new)
    ELSE IF ~(radix <= 32) THEN Fail(new)
    ELSE from_string_loop(s, radix, <<>>, 0)

---------------------------------------------------------------------------
(* The program state: a caller holding two vectors and one DenseBitSet *)

VARIABLES
    a,       \* the DenseBitSetExtended the operations are applied to
    b,       \* a second DenseBitSetExtended: the `other` / `rhs` argument
    w,       \* a DenseBitSet (its u64 state)
    last,    \* the last operation: its name, arguments, the receiver before it
    steps,   \* number of operations applied so far
    text     \* a String: the last one parsed by from_string or made by to_string

vars == <<a, b, w, last, steps, text>>

\* u64 arguments: 0, u64::MAX, 0x8000_0000_0000_000d, 0b1011011101111
Values == { {}, max_value, {0, 2, 3, 63}, {0, 1, 2, 3, 5, 6, 7, 9, 10, 12} }

\* (position, length) arguments of insert_u64: aligned, inside a word, up to a
\* word end, straddling, beyond the stored words
InsertU64Args == { <<0, 64>>, <<5, 3>>, <<61, 3>>, <<60, 13>>, <<50, 64>>,
                   <<64, 64>>, <<130, 7>> }

\* positions of set_bit: the last one is the first whose word index fails the assert
SetBitArgs == {0, 63, 64, 100, WordBits * MaxWords}

\* (position, length) arguments of insert
InsertArgs == { <<0, 64>>, <<60, 13>>, <<3, 70>>, <<0, 128>> }

\* (position, length) arguments of subset
SubsetArgs == { <<0, 4>>, <<0, 64>>, <<4, 128>>, <<10, 64>>, <<2, 0>> }

\* u64 arguments of insert_u64 and DenseBitSet::insert
InsertValues == { {}, max_value, {0, 2, 3, 63} }

\* shift arguments of rotl and rotr: inside the size, a word multiple, beyond 64
RotateArgs == {1, 64, 65}

\* shift arguments of << and >>
ShiftArgs == {0, 3, 64}

\* (position, length) arguments of DenseBitSet::insert
DbsInsertArgs == { <<0, 64>>, <<12, 2>>, <<60, 4>>, <<60, 5>>, <<3, 0>>, <<usize_max, 1>> }

\* positions of DenseBitSet::set_bit
DbsSetBitArgs == {0, 63, 64, usize_max}

\* shift arguments of <<=: none, inside a word, a whole word, up to the ceiling
ShlAssignArgs == {0, 3, 64, WordBits * MaxWords}

\* n times the character c
repeat(c, n) == [i \in 1..n |-> c]

\* (string, radix) arguments of from_string: a short string and a string one
\* digit longer than a 64-bit chunk in radix 2, 8, 16 and 32, a short string in
\* radix 4, upper and lower case, a character that is no digit, a radix that is
\* no power of two
FromStringArgs ==
    { << <<"1", "0", "1", "1">>, 2 >>,
      << <<"1">> \o format_064b({0, 2, 3, 63}), 2 >>,
      << <<"1">> \o repeat("7", 21), 8 >>,
      << <<"f", "8", "d", "5", "2", "1", "5", "a", "5", "2", "b", "5", "7", "e", "a",
           "0", "a">>, 16 >>,
      << <<"1">> \o repeat("v", 12), 32 >>,
      << <<"1", "2", "3">>, 4 >>,
      << <<"F", "f">>, 16 >>,
      << <<"1", "2">>, 2 >>,
      << <<"1", "0">>, 3 >> }

Op(op, ok, pre, value, pos, len) ==
    [op |-> op, ok |-> ok, pre |-> pre, value |-> value, pos |-> pos, len |-> len]

\* the two vectors of test_insert_dbse: an empty one and one built from 0b1011011101111
Init ==
    /\ a = new
    /\ b = from_dense_bitset(dbs_from_integer({0, 1, 2, 3, 5, 6, 7, 9, 10, 12}))
    /\ w = dbs_from_integer({})
    /\ last = Op("new", TRUE, new, {}, 0, 0)
    /\ steps = 0
    /\ text = <<>>

\* an operation can be applied: the bound is not reached, no panic has ended
\* the run, and the receiver has not grown past MaxWords words of WordBits bits
Running ==
    /\ steps < MaxOps
    /\ last.ok
    /\ Len(a.state) <= MaxWords
    /\ a.size <= WordBits * MaxWords

Reset ==
    /\ Running
    /\ a' = reset(a)
    /\ last' = Op("reset", TRUE, a, {}, 0, 0)
    /\ steps' = steps + 1
    /\ UNCHANGED <<b, w, text>>

\* DenseBitSetExtended::from_dense_bitset(DenseBitSet::from_integer(i))
FromDenseBitset ==
    /\ Running
    /\ \E i \in Values :
         /\ a' = from_dense_bitset(dbs_from_integer(i))
         /\ last' = Op("from_dense_bitset", TRUE, a, i, 0, 0)
    /\ steps' = steps + 1
    /\ UNCHANGED <<b, w, text>>

SetBit ==
    /\ Running
    /\ \E position \in SetBitArgs, value \in BOOLEAN :
         LET r == set_bit(a, position, value)
         IN  /\ a' = r.val
             /\ last' = Op("set_bit", r.ok, a, IF value THEN {0} ELSE {}, position, 1)
    /\ steps' = steps + 1
    /\ UNCHANGED <<b, w, text>>

InsertU64 ==
    /\ Running
    /\ \E value \in InsertValues, pl \in InsertU64Args :
         /\ a' = insert_u64(a, value, pl[1], pl[2])
         /\ last' = Op("insert_u64", TRUE, a, value, pl[1], pl[2])
    /\ steps' = steps + 1
    /\ UNCHANGED <<b, w, text>>

Insert ==
    /\ Running
    /\ \E pl \in InsertArgs :
         LET r == insert(a, b, pl[1], pl[2])
         IN  /\ a' = r.val
             /\ last' = Op("insert", r.ok, a, {}, pl[1], pl[2])
    /\ steps' = steps + 1
    /\ UNCHANGED <<b, w, text>>

\* a value-returning operation: the result replaces a, a panic leaves a behind
Returned(op, r, pos, len) ==
    /\ a' = IF r.ok THEN r.val ELSE a
    /\ last' = Op(op, r.ok, a, {}, pos, len)
    /\ steps' = steps + 1
    /\ UNCHANGED <<b, w, text>>

Subset ==
    /\ Running
    /\ \E pl \in SubsetArgs : Returned("subset", subset(a, pl[1], pl[2]), pl[1], pl[2])

Reverse ==
    /\ Running
    /\ Returned("reverse", Ok(reverse(a)), 0, 0)

Rotl ==
    /\ Running
    /\ \E shift \in RotateArgs : Returned("rotl", rotl(a, shift), shift, 0)

Rotr ==
    /\ Running
    /\ \E shift \in RotateArgs : Returned("rotr", rotr(a, shift), shift, 0)

Shl ==
    /\ Running
    /\ \E rhs \in ShiftArgs : Returned("shl", shl(a, rhs), rhs, 0)

Shr ==
    /\ Running
    /\ \E rhs \in ShiftArgs : Returned("shr", shr(a, rhs), rhs, 0)

\* std::mem::swap(&mut a, &mut b): the other vector becomes the receiver
Swap ==
    /\ Running
    /\ a' = b
    /\ b' = a
    /\ last' = Op("swap", TRUE, a, {}, 0, 0)
    /\ steps' = steps + 1
    /\ UNCHANGED <<w, text>>

DbsFromInteger ==
    /\ Running
    /\ \E i \in Values :
         /\ w' = dbs_from_integer(i)
         /\ last' = Op("dbs_from_integer", TRUE, a, i, 0, 0)
    /\ steps' = steps + 1
    /\ UNCHANGED <<a, b, text>>

DbsInsert ==
    /\ Running
    /\ \E value \in InsertValues \ {{}}, pl \in DbsInsertArgs, overflow_checks \in BOOLEAN :
         LET r == dbs_insert(w, pl[1], pl[2], value, overflow_checks)
         IN  /\ w' = r.val
             /\ last' = Op("dbs_insert", r.ok, Vec(<<w>>, 64), value, pl[1], pl[2])
    /\ steps' = steps + 1
    /\ UNCHANGED <<a, b, text>>

DbsSetBit ==
    /\ Running
    /\ \E position \in DbsSetBitArgs, value \in BOOLEAN :
         LET r == dbs_set_bit(w, position, value)
         IN  /\ w' = r.val
             /\ last' = Op("dbs_set_bit", r.ok, Vec(<<w>>, 64),
                           IF value THEN {0} ELSE {}, position, 1)
    /\ steps' = steps + 1
    /\ UNCHANGED <<a, b, text>>

\* DenseBitSetExtended::from_string(s, radix), s one of the strings above in
\* its radix or the String the caller holds in radix 2; last.pos is the radix
\* and last.len the length of s
FromString ==
    /\ Running
    /\ \E sr \in FromStringArgs \cup {<<text, 2>>} :
         LET r == from_string(sr[1], sr[2])
         IN  /\ a' = IF r.ok THEN r.val ELSE a
             /\ last' = Op("from_string", r.ok, a, {}, sr[2], Len(sr[1]))
             /\ text' = sr[1]
    /\ steps' = steps + 1
    /\ UNCHANGED <<b, w>>

\* a.clone().to_string()
ToStringCall ==
    /\ Running
    /\ text' = to_string(a)
    /\ last' = Op("to_string", TRUE, a, {}, 0, 0)
    /\ steps' = steps + 1
    /\ UNCHANGED <<a, b, w>>

\* !a
Not ==
    /\ Running
    /\ Returned("not", not(a), 0, 0)

\* a & b.clone()
BitAnd ==
    /\ Running
    /\ Returned("bitand", Ok(bitand(a, b)), 0, 0)

\* a | b.clone()
BitOr ==
    /\ Running
    /\ Returned("bitor", Ok(bitor(a, b)), 0, 0)

\* a ^ b.clone()
BitXor ==
    /\ Running
    /\ Returned("bitxor", Ok(bitxor(a, b)), 0, 0)

\* an operation on &mut a: a is what the operation, or its panic, left
Assigned(op, r, pos) ==
    /\ a' = r.val
    /\ last' = Op(op, r.ok, a, {}, pos, 0)
    /\ steps' = steps + 1
    /\ UNCHANGED <<b, w, text>>

\* a &= b.clone()
BitAndAssign ==
    /\ Running
    /\ Assigned("bitand_assign", Ok(bitand_assign(a, b)), 0)

\* a |= b.clone()
BitOrAssign ==
    /\ Running
    /\ Assigned("bitor_assign", bitor_assign(a, b), 0)

\* a ^= b.clone()
BitXorAssign ==
    /\ Running
    /\ Assigned("bitxor_assign", bitxor_assign(a, b), 0)

\* a <<= rhs, in a build with or without overflow checks
ShlAssign ==
    /\ Running
    /\ \E rhs \in ShlAssignArgs, overflow_checks \in BOOLEAN :
         Assigned("shl_assign", shl_assign(a, rhs, overflow_checks), rhs)

\* a >>= rhs, in a build with or without overflow checks
ShrAssign ==
    /\ Running
    /\ \E rhs \in ShiftArgs, overflow_checks \in BOOLEAN :
         Assigned("shr_assign", shr_assign(a, rhs, overflow_checks), rhs)

Next ==
    \/ Reset
    \/ FromDenseBitset
    \/ SetBit
    \/ InsertU64
    \/ Insert
    \/ Subset
    \/ Reverse
    \/ Rotl
    \/ Rotr
    \/ Shl
    \/ Shr
    \/ Swap
    \/ DbsFromInteger
    \/ DbsInsert
    \/ DbsSetBit
    \/ FromString
    \/ ToStringCall
    \/ Not
    \/ BitAnd
    \/ BitOr
    \/ BitXor
    \/ BitAndAssign
    \/ BitOrAssign
    \/ BitXorAssign
    \/ ShlAssign
    \/ ShrAssign

Spec == Init /\ [][Next]_vars

---------------------------------------------------------------------------
(* What the specification says a vector holds: size bits, an absent word     *)
(* reading as zero.                                                          *)

\* bit i of v, little endian, a word that is not stored counting as zero
LogicalBit(v, i) ==
    /\ i \div WordBits < Len(v.state)
    /\ (i % WordBits) \in v.state[(i \div WordBits) + 1]

\* the positions below size whose bit is set
SetBits(v) == {i \in 0..(v.size - 1) : LogicalBit(v, i)}

\* same size and the same bit at every position below size
SameBits(u, v) == u.size = v.size /\ SetBits(u) = SetBits(v)

\* value mod 2^len
LowBits(value, len) == value \cap (0..(len - 1))

\* positions read back in the properties below
ProbePositions == {0, 1, 50, 63, 64, 65, 100, 127, 128, 200}

\* rotation amounts tried in the properties below
ProbeShifts == {0, 1, 3, 40, 64, 65, 67, 128, 130}

---------------------------------------------------------------------------
(* Claims *)

\* C1: get_bit(p) completes for every position p (p = size, p > size, p below
\* size but beyond the stored words included) and returns false whenever p
\* lies beyond the stored words.
C1_GetBitNeverFails ==
    \A p \in ProbePositions :
        LET r == get_bit(a, p)
        IN  /\ r.ok
            /\ (p >= WordBits * Len(a.state) => r.val = FALSE)

\* C2: a == b completes in both argument orders and is true exactly when the
\* two vectors have the same size and the same bit at every position below
\* size; bits at positions >= size never influence the result.
C2_EqIffSameBits ==
    LET ab == eq(a, b)
        ba == eq(b, a)
    IN  /\ ab.ok
        /\ ba.ok
        /\ (ab.val <=> SameBits(a, b))
        /\ (ba.val <=> SameBits(a, b))

\* C3: get_weight() is the number of positions below size whose bit is set;
\* bits stored at positions >= size are not counted.
C3_WeightCountsBitsBelowSize ==
    get_weight(a) = Cardinality(SetBits(a))

\* C4: for a non-empty vector v of size n and 0 <= k < n, rotl(k) then
\* rotr(k), and rotr(k) then rotl(k), both complete and compare equal to v.
C4_RotateInverse ==
    a.size > 0 =>
      \A k \in {s \in ProbeShifts : s < a.size} :
        LET l == rotl(a, k)
            lr == rotr(l.val, k)
            r == rotr(a, k)
            rl == rotl(r.val, k)
        IN  /\ l.ok /\ lr.ok /\ eq(lr.val, a).ok /\ eq(lr.val, a).val
            /\ r.ok /\ rl.ok /\ eq(rl.val, a).ok /\ eq(rl.val, a).val

\* C5: rotation is periodic in size: for a non-empty vector v of size n and
\* every shift k (k > n included), rotl(k) gives the same vector as
\* rotl(k mod n) and rotr(k) the same as rotr(k mod n); a multiple of n
\* gives v back.
C5_RotatePeriodic ==
    a.size > 0 =>
      \A k \in ProbeShifts :
        LET l == rotl(a, k)
            lm == rotl(a, k % a.size)
            r == rotr(a, k)
            rm == rotr(a, k % a.size)
        IN  /\ l.ok /\ lm.ok /\ SameBits(l.val, lm.val)
            /\ r.ok /\ rm.ok /\ SameBits(r.val, rm.val)
            /\ (k % a.size = 0 => l.val = a /\ r.val = a)

\* C6: for a non-empty vector v of size n and 0 < k < n (k a multiple of 64
\* included), rotl(k) completes with size n and bit (i + k) mod n equal to
\* bit i of v, and rotr(k) completes with size n and bit i equal to bit
\* (i + k) mod n of v, for every i < n.
C6_RotateMovesBits ==
    a.size > 0 =>
      \A k \in {s \in ProbeShifts : 0 < s /\ s < a.size} :
        LET n == a.size
            l == rotl(a, k)
            r == rotr(a, k)
        IN  /\ l.ok /\ l.val.size = n
            /\ \A i \in 0..(n - 1) : LogicalBit(l.val, (i + k) % n) = LogicalBit(a, i)
            /\ r.ok /\ r.val.size = n
            /\ \A i \in 0..(n - 1) : LogicalBit(r.val, i) = LogicalBit(a, (i + k) % n)

\* C7: v.reverse().to_string() is the character-by-character reverse of
\* v.to_string(), for every size.
C7_ReverseReversesString ==
    to_string(reverse(a)) = reverse_seq(to_string(a))

\* C8: after insert_u64(value, pos, len) with 1 <= len <= 64, extract_u64(pos,
\* len) returns value mod 2^len, and after DenseBitSet::insert(pos, len, value)
\* with len >= 1 and pos + len <= 64, extract(pos, len) returns value mod 2^len.
C8_InsertExtractRoundTrip ==
    /\ last.op = "insert_u64" =>
         LET r == extract_u64(a, last.pos, last.len)
         IN  r.ok /\ r.val = LowBits(last.value, last.len)
    /\ (last.op = "dbs_insert" /\ last.pos >= 0 /\ last.len >= 1
                                /\ last.pos + last.len <= 64) =>
         \A overflow_checks \in BOOLEAN :
           LET r == dbs_extract(w, last.pos, last.len, overflow_checks)
           IN  last.ok /\ r.ok /\ r.val = LowBits(last.value, last.len)

\* C8 witness: an insert_u64 that straddles a word boundary, into words that
\* were not stored before, of a value with bits above len, has been read back.
C8_Witness ==
    /\ last.op = "insert_u64"
    /\ (last.pos % WordBits) + last.len > WordBits
    /\ last.pos \div WordBits >= Len(last.pre.state)
    /\ last.value # LowBits(last.value, last.len)
    /\ extract_u64(a, last.pos, last.len).val = LowBits(last.value, last.len)
    /\ LowBits(last.value, last.len) # {}

\* C9: insert_u64(value, pos, len) with 1 <= len <= 64 leaves every bit outside
\* [pos, pos + len) as it was (an absent word counting as zero), whatever bits
\* value carries above bit len - 1, and size becomes max(old size, pos + len).
C9_InsertU64Frame ==
    last.op = "insert_u64" =>
      /\ a.size = IF last.pre.size >= last.pos + last.len
                  THEN last.pre.size ELSE last.pos + last.len
      /\ \A i \in 0..(WordBits * Len(a.state) - 1) :
            (i < last.pos \/ i >= last.pos + last.len)
              => LogicalBit(a, i) = LogicalBit(last.pre, i)

\* C10: self.insert(other, pos, len) with len >= 1 and other holding at least
\* len bits completes (len a multiple of 64 included); afterwards bit pos + i
\* of self is bit i of other for i < len, every bit outside [pos, pos + len)
\* is unchanged, and size = max(old size, pos + len).
C10_InsertCopiesBits ==
    (last.op = "insert" /\ last.len >= 1 /\ b.size >= last.len) =>
      /\ last.ok
      /\ a.size = IF last.pre.size >= last.pos + last.len
                  THEN last.pre.size ELSE last.pos + last.len
      /\ \A i \in 0..(last.len - 1) : LogicalBit(a, last.pos + i) = LogicalBit(b, i)
      /\ \A i \in 0..(WordBits * Len(a.state) - 1) :
            (i < last.pos \/ i >= last.pos + last.len)
              => LogicalBit(a, i) = LogicalBit(last.pre, i)

\* lengths read back in the properties below
ProbeLengths == {1, 3, 13, 64}

\* every character of s is a digit in the radix
ValidDigits(s, radix) == \A c \in 1..Len(s) : to_digit(s[c], radix) >= 0

\* the set bits of the integer that the digit string s denotes in a radix 2^k
DenotedBits(s, radix) ==
    UNION { {(Len(s) - c) * trailing_zeros(radix) + k : k \in digit_bits(to_digit(s[c], radix))}
            : c \in 1..Len(s) }

\* C11: extract_u64(pos, len) with 1 <= len <= 64 completes, returns 0 when
\* pos >= size and otherwise the integer whose bit j, for j < min(len, size -
\* pos), is bit pos + j of the vector and whose higher bits are 0, also when
\* the word holding pos or the next word is not stored.
C11_ExtractU64ReadsBits ==
    \A pos \in ProbePositions, len \in ProbeLengths :
        LET r == extract_u64(a, pos, len)
        IN  /\ r.ok
            /\ r.val = {j \in 0..(len - 1) : pos + j < a.size /\ LogicalBit(a, pos + j)}

\* C12: subset(pos, len) completes and returns a vector of size len with
\* ceil(len / 64) words whose bit i, for i < len, is bit pos + i of the
\* receiver when pos + i < size and 0 otherwise.
C12_SubsetCopiesBits ==
    \A pl \in SubsetArgs :
        LET r == subset(a, pl[1], pl[2])
        IN  /\ r.ok
            /\ r.val.size = pl[2]
            /\ Len(r.val.state) = (pl[2] + 63) \div 64
            /\ \A i \in 0..(pl[2] - 1) :
                 LogicalBit(r.val, i) = (pl[1] + i < a.size /\ LogicalBit(a, pl[1] + i))

\* C13: for a radix r in {2, 4, 8, 16, 32} and a string s of valid digits,
\* from_string(s, r) has size len(s) * log2(r).
C13_FromStringSize ==
    (/\ last.op = "from_string"
     /\ last.pos \in {2, 4, 8, 16, 32}
     /\ ValidDigits(text, last.pos))
      => /\ last.ok
         /\ a.size = Len(text) * trailing_zeros(last.pos)

\* C14: for a radix r in {2, 4, 8, 16, 32} and a string s of valid digits,
\* bit i of from_string(s, r) is bit i of the integer s denotes in radix r,
\* for every i below size.
C14_FromStringValue ==
    (/\ last.op = "from_string"
     /\ last.pos \in {2, 4, 8, 16, 32}
     /\ ValidDigits(text, last.pos))
      => /\ last.ok
         /\ \A i \in 0..(a.size - 1) :
              LogicalBit(a, i) = (i \in DenotedBits(text, last.pos))

\* C15: for a vector v whose size is a positive multiple of 64,
\* from_string(v.to_string(), 2) == v completes and is true, also when high
\* words of v are not stored.
C15_StringRoundTrip ==
    (a.size > 0 /\ a.size % WordBits = 0) =>
      LET p == from_string(to_string(a), 2)
          e == eq(p.val, a)
      IN  p.ok /\ e.ok /\ e.val

\* C16: to_string() has 64 * max(1, stored words) characters, each "0" or "1",
\* and the character at distance i from the right end is "1" exactly when
\* i < size and bit i is set.
C16_ToStringPrintsBits ==
    LET s == to_string(a)
        n == Len(s)
    IN  /\ n = WordBits * max(1, Len(a.state))
        /\ \A i \in 0..(n - 1) :
             /\ s[n - i] \in {"0", "1"}
             /\ (s[n - i] = "1") <=> (i < a.size /\ LogicalBit(a, i))

\* C17: the size of a vector never exceeds 64 * 1000 bits and its word count
\* never exceeds 1000, whatever operations were applied.
C17_SizeCeiling ==
    /\ a.size <= WordBits * MaxWords
    /\ Len(a.state) <= MaxWords

\* C18: for vectors a and b of equal size, whatever their stored word counts,
\* get_weight(a & b) + get_weight(a | b) = get_weight(a) + get_weight(b).
C18_WeightAdditive ==
    a.size = b.size =>
      get_weight(bitand(a, b)) + get_weight(bitor(a, b)) = get_weight(a) + get_weight(b)

\* C18 witness: two vectors of equal size, one storing more words than the
\* other and a set bit in the extra word, with set bits in common and set bits
\* apart, for which the two sums agree.
C18_Witness ==
    /\ last.ok
    /\ a.size = b.size
    /\ Len(a.state) # Len(b.state)
    /\ \E i \in (min(Len(a.state), Len(b.state)) + 1)..Len(a.state) : a.state[i] # {}
    /\ get_weight(bitand(a, b)) > 0
    /\ get_weight(bitor(a, b)) > get_weight(a)
    /\ get_weight(bitor(a, b)) > get_weight(b)
    /\ get_weight(bitand(a, b)) + get_weight(bitor(a, b)) = get_weight(a) + get_weight(b)

\* C19: a |= b completes and leaves a with the size and bits of a | b (size
\* the larger of the two), a ^= b likewise those of a ^ b, and a &= b those
\* of a & b (size the smaller of the two, no bit set at or beyond it), also
\* when b stores more words or has a larger size than a.
C19_AssignMatchesValue ==
    LET o == bitor_assign(a, b)
        x == bitxor_assign(a, b)
        n == bitand_assign(a, b)
    IN  /\ o.ok /\ SameBits(o.val, bitor(a, b)) /\ o.val.size = max(a.size, b.size)
        /\ x.ok /\ SameBits(x.val, bitxor(a, b)) /\ x.val.size = max(a.size, b.size)
        /\ SameBits(n, bitand(a, b)) /\ n.size = min(a.size, b.size)
        /\ \A i \in n.size..(WordBits * Len(n.state) - 1) : ~LogicalBit(n, i)

\* C20: for a vector v of size > 0, !v completes with the same size, bit i the
\* negation of bit i of v for i < size and no bit set at or beyond size, so
\* get_weight(!v) = size - (number of set bits of v below size), also when v
\* stores fewer than ceil(size / 64) words.
C20_NotNegates ==
    a.size > 0 =>
      LET r == not(a)
      IN  /\ r.ok
          /\ r.val.size = a.size
          /\ \A i \in 0..(a.size - 1) : LogicalBit(r.val, i) = ~LogicalBit(a, i)
          /\ \A i \in a.size..(WordBits * Len(r.val.state) - 1) : ~LogicalBit(r.val, i)
          /\ get_weight(r.val) = a.size - Cardinality(SetBits(a))

\* the smallest element of a non-empty set of positions
Least(S) == CHOOSE i \in S : \A j \in S : i <= j

\* pos and len, read as usize, satisfy len >= 1 and pos + len <= 64
InRange(pos, len) == pos >= 0 /\ len >= 1 /\ pos + len <= 64

\* positions and lengths tried on a DenseBitSet in the properties below
DbsProbePositions == {0, 12, 63, 64, 100, usize_max}

DbsProbeLengths == {0, 1, 2, 64, 65}

\* the operations on &mut self of a DenseBitSetExtended
InPlaceOps ==
    {"set_bit", "insert_u64", "insert", "bitand_assign", "bitor_assign", "bitxor_assign",
     "shl_assign", "shr_assign"}

\* C21: first_set() returns the smallest position below size whose bit is
\* set, and size when no bit below size is set; never more than size.
C21_FirstSetIsLeastSetBit ==
    /\ first_set(a) = IF SetBits(a) = {} THEN a.size ELSE Least(SetBits(a))
    /\ first_set(a) <= a.size

\* C22: for a vector v of size s > 0 and n >= 0 with s + n within the
\* ceiling, v << n completes with size s + n, bit i + n equal to bit i of v
\* for i < s and bits 0..n-1 all 0, and first_set(v << n) = first_set(v) + n
\* when v has a set bit.
C22_ShlMovesBits ==
    a.size > 0 =>
      \A n \in {k \in ShiftArgs : a.size + k <= WordBits * MaxWords} :
        LET r == shl(a, n)
        IN  /\ r.ok
            /\ r.val.size = a.size + n
            /\ \A i \in 0..(a.size - 1) : LogicalBit(r.val, i + n) = LogicalBit(a, i)
            /\ \A i \in 0..(n - 1) : ~LogicalBit(r.val, i)
            /\ (SetBits(a) # {} => first_set(r.val) = first_set(a) + n)

\* C23: DenseBitSet::insert(pos, len, value) with len >= 1 and pos + len <= 64
\* completes and overwrites exactly the field [pos, pos + len) with value mod
\* 2^len: every bit outside the field is as before, whatever bits value has
\* at or above bit len.
C23_DbsInsertFrame ==
    (last.op = "dbs_insert" /\ InRange(last.pos, last.len)) =>
      LET before == last.pre.state[1]
          field == last.pos..(last.pos + last.len - 1)
      IN  /\ last.ok
          /\ w = (before \ field) \cup {last.pos + j : j \in LowBits(last.value, last.len)}

\* C24: on a DenseBitSet, get_bit(pos) and set_bit(pos, _) fail exactly when
\* pos >= 64, extract(pos, len) and insert(pos, len, _) fail exactly when
\* len = 0 or pos + len > 64, and a failing call leaves the word unchanged.
C24_DbsBoundaryFailures ==
    /\ \A pos \in DbsProbePositions :
         /\ dbs_get_bit(w, pos).ok <=> (0 <= pos /\ pos < 64)
         /\ \A value \in BOOLEAN :
              LET r == dbs_set_bit(w, pos, value)
              IN  /\ r.ok <=> (0 <= pos /\ pos < 64)
                  /\ ~r.ok => r.val = w
    /\ \A pos \in DbsProbePositions, len \in DbsProbeLengths, overflow_checks \in BOOLEAN :
         /\ dbs_extract(w, pos, len, overflow_checks).ok <=> InRange(pos, len)
         /\ \A value \in InsertValues :
              LET r == dbs_insert(w, pos, len, value, overflow_checks)
              IN  /\ r.ok <=> InRange(pos, len)
                  /\ ~r.ok => r.val = w

\* C25: when an operation on &mut self of a vector fails, the size and the
\* stored words of the receiver are what they were before the call.
C25_NoPartialResults ==
    (last.op \in InPlaceOps /\ ~last.ok) => a = last.pre

\* C26: the number of stored words is ceil(size / 64) whenever size > 0, and
\* no word is stored when size = 0.
C26_StorageInvariant ==
    Len(a.state) = (a.size + WordBits - 1) \div WordBits

\* C27: after set_bit(p, v) with p below the ceiling, the size is max(old
\* size, p + 1), get_bit(p) completes and returns v, and every other position
\* reads as it did before the call.
C27_SetBitReadBack ==
    (last.op = "set_bit" /\ last.pos < WordBits * MaxWords) =>
      /\ last.ok
      /\ a.size = max(last.pre.size, last.pos + 1)
      /\ get_bit(a, last.pos).ok
      /\ get_bit(a, last.pos).val = (last.value = {0})
      /\ \A q \in ProbePositions \ {last.pos} :
           get_bit(last.pre, q).ok =>
             /\ get_bit(a, q).ok
             /\ get_bit(a, q).val = get_bit(last.pre, q).val

\* C28: v <<= n completes and leaves v with the size and bits of v << n, and
\* v >>= n completes and leaves v with the size and bits of v >> n (the empty
\* vector when n >= size), for every n >= 0, in either build.
C28_AssignShiftsMatchValueShifts ==
    \A n \in ShiftArgs, overflow_checks \in BOOLEAN :
      LET la == shl_assign(a, n, overflow_checks)
          l == shl(a, n)
          ra == shr_assign(a, n, overflow_checks)
          r == shr(a, n)
      IN  /\ la.ok /\ (l.ok => SameBits(la.val, l.val))
          /\ ra.ok /\ (r.ok => SameBits(ra.val, r.val))

\* C29: all() completes and is true exactly when every bit below size is set
\* (the empty vector and vectors with bits stored at or beyond size included);
\* any() and none() give opposite answers.
C29_AllAnyNone ==
    /\ all(a).ok
    /\ all(a).val = (\A i \in 0..(a.size - 1) : LogicalBit(a, i))
    /\ any(a) # none(a)

\* C30: whenever a == b is true, a and b feed the same sequence of words to
\* the hasher.
C30_HashConsistentWithEq ==
    (eq(a, b).ok /\ eq(a, b).val) => hash(a) = hash(b)

====
